---- MODULE Spec2Model ----
(***************************************************************************)
(* Model of face-search (src/main.py): the AlbumIndex store kept in        *)
(* <album>/index.sqlite3, the Album listing, and the command main() that   *)
(* initializes, synchronizes, queries or deletes the index.                *)
(*                                                                         *)
(* File names are the numbers 1..NumFiles, numbered in the order in which  *)
(* the directory traversal of Album.list_files yields them.  A face vector *)
(* is abstracted to an integer (a point on a line) and the comparator to a *)
(* distance threshold, as face_recognition.compare_faces is.               *)
(*                                                                         *)
(* The durable database is (indexFile, tables, files, link).  Rows written *)
(* by INSERT statements are held in the connection's open transaction      *)
(* (txFiles, txLink) until commit(); closing the connection without a      *)
(* commit (process exit, exception, crash) discards them.  CREATE TABLE is *)
(* not a DML statement, so the sqlite3 module runs it in autocommit mode.  *)
(***************************************************************************)
EXTENDS Integers, Sequences, FiniteSets, TLC

\* ---- bounds ----
NumFiles == 3
MaxVector == 5
MaxQueryFaces == 2
MaxRows == 4

\* compare_faces' distance threshold (its default tolerance), in model units
Tolerance == 1

Files == 1..NumFiles
Vectors == 1..MaxVector

VARIABLES
    album,          \* image files currently under the album root
    unreadable,     \* album files on which load_image_file/face_encodings raises
    indexFile,      \* index.sqlite3 exists on disk
    tables,         \* tables of the database
    files,          \* committed rows of table files, in rowid order
    link,           \* committed rows of table link, in rowid order
    pc,             \* position of the running process; "idle" when none runs
    caller,         \* "main" for a run of main(), "client" for direct use of AlbumIndex
    delete_index,   \* main: args.delete_index
    index,          \* AlbumIndex.index is not None
    txFiles,        \* rows of files inserted by the open transaction
    txLink,         \* rows of link inserted by the open transaction
    indexed_files,  \* main: indexed_files
    new_files,      \* main: new_files
    i,              \* main: position of the loop over new_files
    filename,       \* insert: filename
    encodings,      \* insert: encodings
    k,              \* insert: position of the loop over encodings
    query,          \* find_face: encodings of the query image
    result,         \* find_face: returned list
    outcome,        \* how the run or call ended
    compareCalls,   \* number of compare_faces calls of this run
    extracted,      \* files the extractor was invoked on in this run
    syncComplete,   \* the loop over new_files of this run has finished
    startFiles,     \* table files as it was when this run started
    startLink,      \* table link as it was when this run started
    prevAlbum,      \* album listing of the previous run if its sync completed
    created,        \* this run has created the index file (initialize)
    deleted,        \* names the last run removed with the index it deleted
    find_face_arg   \* main: args.find_face: "given", "none", or "unread" so far

durable == <<indexFile, tables, files, link>>
proc == <<caller, delete_index, index>>
env == <<album, unreadable>>
tx == <<txFiles, txLink>>
mainLocals == <<indexed_files, new_files, i>>
insertLocals == <<filename, encodings, k>>
queryLocals == <<query, result, compareCalls>>
history == <<extracted, syncComplete, startFiles, startLink, prevAlbum>>
runFacts == <<created, deleted, find_face_arg>>
vars == <<album, unreadable, indexFile, tables, files, link, pc, caller, delete_index, index,
          txFiles, txLink, indexed_files, new_files, i, filename, encodings, k,
          query, result, outcome, compareCalls, extracted, syncComplete,
          startFiles, startLink, prevAlbum, created, deleted, find_face_arg>>

\* ---- helpers ----
Range(s) == {s[j] : j \in 1..Len(s)}

Abs(x) == IF x < 0 THEN -x ELSE x

NoFile == 0
NoAlbum == {NoFile}

RECURSIVE SortedSeq(_)
SortedSeq(S) ==
    IF S = {} THEN <<>>
    ELSE LET m == CHOOSE x \in S : \A y \in S : x <= y
         IN <<m>> \o SortedSeq(S \ {m})

\* ---- external collaborators ----
\* face_recognition.face_encodings(load_image_file(album_path / filename)):
\* the faces of each file are fixed by its content: one face, no face, two faces
Faces(f) ==
    IF f % 3 = 1 THEN <<f>>
    ELSE IF f % 3 = 2 THEN <<>>
    ELSE <<f - 1, f>>

\* face_recognition.compare_faces([known_encoding], encoding)[0]
compare_faces(known_encoding, encoding) == Abs(known_encoding - encoding) <= Tolerance

\* encodings face_encodings may return for a query image: up to MaxQueryFaces
\* faces, the first anywhere in Vectors and the others next to it
QueryEncodings ==
    {[j \in 1..n |-> v + j - 1] : v \in Vectors, n \in 0..MaxQueryFaces}

\* ---- Album ----
\* variant: the traversal yields every file twice (a directory reached by two paths)
AlbumListFilesTwice(alb) == SortedSeq(alb) \o SortedSeq(alb)

\* Album.list_files: every image file under the root, once, in traversal order
AlbumListFiles(alb) == SortedSeq(alb)

\* ---- AlbumIndex ----
\* AlbumIndex.list_files: SELECT * FROM files, as a set
list_files(rows) == Range(rows)

\* AlbumIndex.list_links: SELECT * FROM link
list_links(rows) == rows

\* variant: the listing is not filtered against the indexed files
NewFilesNoFilter(listing, indexed) == listing

\* variant: the filter is inverted
NewFilesInverted(listing, indexed) == SelectSeq(listing, LAMBDA f : f \in indexed)

\* main: new_files = [file for file in album.list_files() if file not in indexed_files]
NewFiles(listing, indexed) == SelectSeq(listing, LAMBDA f : f \notin indexed)

RECURSIVE Dedup(_)
Dedup(s) ==
    IF s = <<>> THEN <<>>
    ELSE LET rest == Dedup(SubSeq(s, 1, Len(s) - 1))
             last == s[Len(s)]
         IN IF last \in Range(rest) THEN rest ELSE Append(rest, last)

\* variant: each matching file is reported once
MatchingFilenamesDedup(links, q) ==
    LET hits == SelectSeq(links, LAMBDA row : compare_faces(row[2], q))
    IN Dedup([j \in 1..Len(hits) |-> hits[j][1]])

\* the list comprehension of find_face: one filename per matching row, in row order
MatchingFilenames(links, q) ==
    LET hits == SelectSeq(links, LAMBDA row : compare_faces(row[2], q))
    IN [j \in 1..Len(hits) |-> hits[j][1]]

\* variant: a query with several faces is answered for its first face
find_face_first(encs, links) ==
    IF Len(encs) = 0 THEN [outcome |-> "found", result |-> <<>>, compares |-> 0]
    ELSE [outcome |-> "found", result |-> MatchingFilenames(list_links(links), encs[1]),
          compares |-> Len(links)]

\* variant: a query without a face is an error
find_face_noface_error(encs, links) ==
    IF Len(encs) # 1
    THEN [outcome |-> IF Len(encs) = 0 THEN "NoFace" ELSE "AmbiguousQuery",
          result |-> <<>>, compares |-> 0]
    ELSE [outcome |-> "found", result |-> MatchingFilenames(list_links(links), encs[1]),
          compares |-> Len(links)]

\* AlbumIndex.find_face on the encodings of the query image
find_face(encs, links) ==
    IF Len(encs) = 0 THEN [outcome |-> "found", result |-> <<>>, compares |-> 0]
    ELSE IF Len(encs) > 1
         THEN [outcome |-> "AmbiguousQuery", result |-> <<>>, compares |-> 0]
         ELSE [outcome |-> "found", result |-> MatchingFilenames(list_links(links), encs[1]),
               compares |-> Len(links)]

\* ---- initial state: an album directory without index, no process running ----
Init ==
    /\ album = {}
    /\ unreadable = {}
    /\ indexFile = FALSE
    /\ tables = {}
    /\ files = <<>>
    /\ link = <<>>
    /\ pc = "idle"
    /\ caller = "none"
    /\ delete_index = FALSE
    /\ index = FALSE
    /\ txFiles = <<>>
    /\ txLink = <<>>
    /\ indexed_files = {}
    /\ new_files = <<>>
    /\ i = 0
    /\ filename = NoFile
    /\ encodings = <<>>
    /\ k = 0
    /\ query = <<>>
    /\ result = <<>>
    /\ outcome = "none"
    /\ compareCalls = 0
    /\ extracted = {}
    /\ syncComplete = FALSE
    /\ startFiles = <<>>
    /\ startLink = <<>>
    /\ prevAlbum = NoAlbum
    /\ created = FALSE
    /\ deleted = {}
    /\ find_face_arg = "unread"

\* an uncaught exception ends the process
Raise(err) ==
    /\ pc' = "done"
    /\ outcome' = err

\* ---- the album changes between runs ----
AddFile(f) ==
    /\ pc = "idle"
    /\ f \notin album
    /\ album' = album \cup {f}
    /\ UNCHANGED <<unreadable, durable, pc, proc, tx, mainLocals,
                   insertLocals, queryLocals, outcome, history, runFacts>>

RemoveFile(f) ==
    /\ pc = "idle"
    /\ f \in album
    /\ album' = album \ {f}
    /\ unreadable' = unreadable \ {f}
    /\ UNCHANGED <<durable, pc, proc, tx, mainLocals,
                   insertLocals, queryLocals, outcome, history, runFacts>>

\* the file is replaced by a truncated or otherwise undecodable image
CorruptFile(f) ==
    /\ pc = "idle"
    /\ f \in album \ unreadable
    /\ unreadable' = unreadable \cup {f}
    /\ UNCHANGED <<album, durable, pc, proc, tx, mainLocals,
                   insertLocals, queryLocals, outcome, history, runFacts>>

RepairFile(f) ==
    /\ pc = "idle"
    /\ f \in unreadable
    /\ unreadable' = unreadable \ {f}
    /\ UNCHANGED <<album, durable, pc, proc, tx, mainLocals,
                   insertLocals, queryLocals, outcome, history, runFacts>>

\* variant: unlink(missing_ok=False) without the exists() check
RunDeleteUnchecked ==
    /\ pc = "idle"
    /\ caller' = "main"
    /\ delete_index' = TRUE
    /\ \E arg \in {"none", "given"} : find_face_arg' = arg
    /\ deleted' = list_files(files)
    /\ index' = indexFile
    /\ IF indexFile
       THEN /\ indexFile' = FALSE
            /\ tables' = {}
            /\ files' = <<>>
            /\ link' = <<>>
            /\ outcome' = "ok"
       ELSE /\ UNCHANGED durable
            /\ outcome' = "NotFound"
    /\ startFiles' = files
    /\ startLink' = link
    /\ pc' = "done"
    /\ UNCHANGED <<env, tx, mainLocals, insertLocals, queryLocals,
                   extracted, syncComplete, prevAlbum, created>>

\* variant: the rows of files are deleted, the index file and table link stay
RunDeleteRowsOnly ==
    /\ pc = "idle"
    /\ caller' = "main"
    /\ delete_index' = TRUE
    /\ \E arg \in {"none", "given"} : find_face_arg' = arg
    /\ deleted' = list_files(files)
    /\ index' = indexFile
    /\ files' = <<>>
    /\ UNCHANGED <<indexFile, tables, link>>
    /\ startFiles' = files
    /\ startLink' = link
    /\ pc' = "done"
    /\ outcome' = "ok"
    /\ UNCHANGED <<env, tx, mainLocals, insertLocals, queryLocals,
                   extracted, syncComplete, prevAlbum, created>>

\* variant: without an index the delete run falls through to initialize
RunDeleteNoReturn ==
    /\ pc = "idle"
    /\ caller' = "main"
    /\ delete_index' = TRUE
    /\ \E arg \in {"none", "given"} : find_face_arg' = arg
    /\ deleted' = list_files(files)
    /\ index' = indexFile
    /\ IF indexFile
       THEN /\ indexFile' = FALSE
            /\ tables' = {}
            /\ files' = <<>>
            /\ link' = <<>>
            /\ pc' = "done"
            /\ outcome' = "ok"
       ELSE /\ UNCHANGED durable
            /\ pc' = "connect"
            /\ UNCHANGED outcome
    /\ startFiles' = files
    /\ startLink' = link
    /\ UNCHANGED <<env, tx, mainLocals, insertLocals, queryLocals,
                   extracted, syncComplete, prevAlbum, created>>

\* ---- main with --delete-index ----
RunDelete ==
    /\ pc = "idle"
    /\ caller' = "main"
    /\ delete_index' = TRUE
    /\ \E arg \in {"none", "given"} : find_face_arg' = arg
    /\ deleted' = list_files(files)
    /\ index' = indexFile
    /\ IF indexFile
       THEN /\ indexFile' = FALSE
            /\ tables' = {}
            /\ files' = <<>>
            /\ link' = <<>>
       ELSE UNCHANGED durable
    /\ startFiles' = files
    /\ startLink' = link
    /\ pc' = "done"
    /\ outcome' = "ok"
    /\ UNCHANGED <<env, tx, mainLocals, insertLocals, queryLocals,
                   extracted, syncComplete, prevAlbum, created>>

\* ---- main without --delete-index: Album(), AlbumIndex(), exists() ----
RunStart ==
    /\ pc = "idle"
    /\ caller' = "main"
    /\ delete_index' = FALSE
    /\ index' = indexFile
    /\ startFiles' = files
    /\ startLink' = link
    /\ pc' = IF indexFile THEN "list" ELSE "connect"
    /\ UNCHANGED <<env, durable, tx, mainLocals, insertLocals, queryLocals,
                   outcome, extracted, syncComplete, prevAlbum, runFacts>>

\* ---- AlbumIndex.initialize ----
InitializeConnect ==
    /\ pc = "connect"
    /\ indexFile' = TRUE
    /\ index' = TRUE
    /\ created' = TRUE
    /\ pc' = "create_files"
    /\ UNCHANGED <<env, tables, files, link, caller, delete_index, tx, mainLocals, insertLocals,
                   queryLocals, outcome, history, deleted, find_face_arg>>

CreateFiles ==
    /\ pc = "create_files"
    /\ IF "files" \in tables
       THEN /\ Raise("OperationalError")
            /\ UNCHANGED tables
       ELSE /\ tables' = tables \cup {"files"}
            /\ pc' = "create_link"
            /\ UNCHANGED outcome
    /\ UNCHANGED <<env, indexFile, files, link, proc, tx, mainLocals,
                   insertLocals, queryLocals, history, runFacts>>

CreateLink ==
    /\ pc = "create_link"
    /\ IF "link" \in tables
       THEN /\ Raise("OperationalError")
            /\ UNCHANGED tables
       ELSE /\ tables' = tables \cup {"link"}
            /\ pc' = IF caller = "main" THEN "list" ELSE "client"
            /\ UNCHANGED outcome
    /\ UNCHANGED <<env, indexFile, files, link, proc, tx, mainLocals,
                   insertLocals, queryLocals, history, runFacts>>

\* ---- main: indexed_files, new_files ----
ListFiles ==
    /\ pc = "list"
    /\ IF "files" \notin tables
       THEN /\ Raise("OperationalError")
            /\ UNCHANGED mainLocals
       ELSE /\ indexed_files' = list_files(files \o txFiles)
            /\ new_files' = NewFiles(AlbumListFiles(album), list_files(files \o txFiles))
            /\ i' = 1
            /\ pc' = "loop"
            /\ UNCHANGED outcome
    /\ UNCHANGED <<env, durable, proc, tx, insertLocals, queryLocals, history, runFacts>>

\* ---- AlbumIndex.insert ----
\* face_encodings(load_image_file(...)) of insert(f)
InsertExtract(f) ==
    /\ filename' = f
    /\ extracted' = extracted \cup {f}
    /\ IF f \in unreadable \/ f \notin album
       THEN /\ Raise("ExtractionFailure")
            /\ UNCHANGED <<encodings, k>>
       ELSE /\ encodings' = Faces(f)
            /\ k' = 1
            /\ pc' = "insert_files"
            /\ UNCHANGED outcome
    /\ UNCHANGED <<env, durable, proc, tx, mainLocals, queryLocals,
                   syncComplete, startFiles, startLink, prevAlbum, runFacts>>

\* main: for file in new_files: index.insert(file)
SyncInsert ==
    /\ pc = "loop"
    /\ i <= Len(new_files)
    /\ InsertExtract(new_files[i])

\* variant: the connection is in autocommit mode, the row is durable at once
InsertFilesRowAutocommit ==
    /\ pc = "insert_files"
    /\ IF "files" \notin tables
       THEN /\ Raise("OperationalError")
            /\ UNCHANGED files
       ELSE /\ files' = Append(files, filename)
            /\ pc' = "insert_link"
            /\ UNCHANGED outcome
    /\ UNCHANGED <<env, indexFile, tables, link, proc, tx, mainLocals, insertLocals,
                   queryLocals, history, runFacts>>

\* variant: a file without a face gets no row in files
InsertFilesRowIfFaces ==
    /\ pc = "insert_files"
    /\ IF "files" \notin tables
       THEN /\ Raise("OperationalError")
            /\ UNCHANGED txFiles
       ELSE /\ txFiles' = IF encodings = <<>> THEN txFiles ELSE Append(txFiles, filename)
            /\ pc' = "insert_link"
            /\ UNCHANGED outcome
    /\ UNCHANGED <<env, durable, proc, txLink, mainLocals, insertLocals,
                   queryLocals, history, runFacts>>

\* INSERT INTO files(name) VALUES (?)
InsertFilesRow ==
    /\ pc = "insert_files"
    /\ IF "files" \notin tables
       THEN /\ Raise("OperationalError")
            /\ UNCHANGED txFiles
       ELSE /\ txFiles' = Append(txFiles, filename)
            /\ pc' = "insert_link"
            /\ UNCHANGED outcome
    /\ UNCHANGED <<env, durable, proc, txLink, mainLocals, insertLocals,
                   queryLocals, history, runFacts>>

\* variant: the rows of link are written outside the transaction
InsertLinkRowAutocommit ==
    /\ pc = "insert_link"
    /\ k <= Len(encodings)
    /\ IF "link" \notin tables
       THEN /\ Raise("OperationalError")
            /\ UNCHANGED <<link, k>>
       ELSE /\ link' = Append(link, <<filename, encodings[k]>>)
            /\ k' = k + 1
            /\ UNCHANGED <<pc, outcome>>
    /\ UNCHANGED <<env, indexFile, tables, files, proc, tx, mainLocals, filename,
                   encodings, queryLocals, history, runFacts>>

\* INSERT INTO link(filename, face_vector) VALUES (?, ?)
InsertLinkRow ==
    /\ pc = "insert_link"
    /\ k <= Len(encodings)
    /\ IF "link" \notin tables
       THEN /\ Raise("OperationalError")
            /\ UNCHANGED <<txLink, k>>
       ELSE /\ txLink' = Append(txLink, <<filename, encodings[k]>>)
            /\ k' = k + 1
            /\ UNCHANGED <<pc, outcome>>
    /\ UNCHANGED <<env, durable, proc, txFiles, mainLocals, filename,
                   encodings, queryLocals, history, runFacts>>

\* variant: the commit also drops the rows of files that left the album
InsertCommitPrune ==
    /\ pc = "insert_link"
    /\ k > Len(encodings)
    /\ files' = SelectSeq(files \o txFiles, LAMBDA f : f \in album)
    /\ link' = SelectSeq(link \o txLink, LAMBDA row : row[1] \in album)
    /\ txFiles' = <<>>
    /\ txLink' = <<>>
    /\ IF caller = "main"
       THEN /\ i' = i + 1
            /\ pc' = "loop"
       ELSE /\ i' = i
            /\ pc' = "client"
    /\ UNCHANGED <<env, indexFile, tables, proc, indexed_files, new_files,
                   insertLocals, queryLocals, outcome, history, runFacts>>

\* self.index.commit()
InsertCommit ==
    /\ pc = "insert_link"
    /\ k > Len(encodings)
    /\ files' = files \o txFiles
    /\ link' = link \o txLink
    /\ txFiles' = <<>>
    /\ txLink' = <<>>
    /\ IF caller = "main"
       THEN /\ i' = i + 1
            /\ pc' = "loop"
       ELSE /\ i' = i
            /\ pc' = "client"
    /\ UNCHANGED <<env, indexFile, tables, proc, indexed_files, new_files,
                   insertLocals, queryLocals, outcome, history, runFacts>>

\* ---- main: the loop over new_files has finished ----
SyncDone ==
    /\ pc = "loop"
    /\ i > Len(new_files)
    /\ syncComplete' = TRUE
    /\ pc' = "synced"
    /\ UNCHANGED <<env, durable, proc, tx, mainLocals, insertLocals,
                   queryLocals, outcome, extracted, startFiles, startLink, prevAlbum, runFacts>>

\* args.find_face is None
NoQuery ==
    /\ pc = "synced"
    /\ pc' = "done"
    /\ outcome' = "ok"
    /\ find_face_arg' = "none"
    /\ UNCHANGED <<env, durable, proc, tx, mainLocals, insertLocals,
                   queryLocals, history, created, deleted>>

\* find_face: encodings = face_encodings(load_image_file(path)) of the query image
QueryExtract ==
    /\ pc = "synced"
    /\ \E encs \in QueryEncodings : query' = encs
    /\ pc' = "find"
    /\ find_face_arg' = "given"
    /\ UNCHANGED <<env, durable, proc, tx, mainLocals, insertLocals, result,
                   compareCalls, outcome, history, created, deleted>>

\* variant: the scan reads the rows of link as they were before this run's sync
FindFaceStale ==
    /\ pc = "find"
    /\ IF Len(query) = 1 /\ "link" \notin tables
       THEN /\ Raise("OperationalError")
            /\ UNCHANGED <<result, compareCalls>>
       ELSE LET r == find_face(query, startLink)
            IN /\ result' = r.result
               /\ compareCalls' = r.compares
               /\ outcome' = r.outcome
               /\ pc' = "done"
    /\ UNCHANGED <<env, durable, proc, tx, mainLocals, insertLocals, query, history, runFacts>>

\* find_face: the checks on len(encodings) and the scan of list_links();
\* main prints the count and the paths of the returned list
FindFace ==
    /\ pc = "find"
    /\ IF Len(query) = 1 /\ "link" \notin tables
       THEN /\ Raise("OperationalError")
            /\ UNCHANGED <<result, compareCalls>>
       ELSE LET r == find_face(query, link \o txLink)
            IN /\ result' = r.result
               /\ compareCalls' = r.compares
               /\ outcome' = r.outcome
               /\ pc' = "done"
    /\ UNCHANGED <<env, durable, proc, tx, mainLocals, insertLocals, query, history, runFacts>>

\* ---- the process is killed, or a statement fails with an I/O error ----
Crash ==
    /\ pc \notin {"idle", "done"}
    /\ Raise("crash")
    /\ UNCHANGED <<env, durable, proc, tx, mainLocals, insertLocals,
                   queryLocals, history, runFacts>>

\* ---- the process ends; its connection is closed without a commit ----
Exit ==
    /\ pc = "done"
    /\ pc' = "idle"
    /\ caller' = "none"
    /\ delete_index' = FALSE
    /\ index' = FALSE
    /\ txFiles' = <<>>
    /\ txLink' = <<>>
    /\ indexed_files' = {}
    /\ new_files' = <<>>
    /\ i' = 0
    /\ filename' = NoFile
    /\ encodings' = <<>>
    /\ k' = 0
    /\ query' = <<>>
    /\ result' = <<>>
    /\ outcome' = "none"
    /\ compareCalls' = 0
    /\ extracted' = {}
    /\ syncComplete' = FALSE
    /\ startFiles' = <<>>
    /\ startLink' = <<>>
    /\ prevAlbum' = IF syncComplete THEN album ELSE NoAlbum
    /\ created' = FALSE
    /\ deleted' = IF delete_index THEN deleted ELSE {}
    /\ find_face_arg' = "unread"
    /\ UNCHANGED <<env, durable>>

AlbumChange ==
    \E f \in Files : AddFile(f) \/ RemoveFile(f) \/ CorruptFile(f) \/ RepairFile(f)

Next ==
    \/ AlbumChange
    \/ RunDelete
    \/ RunStart
    \/ InitializeConnect
    \/ CreateFiles
    \/ CreateLink
    \/ ListFiles
    \/ SyncInsert
    \/ InsertFilesRow
    \/ InsertLinkRow
    \/ InsertCommit
    \/ SyncDone
    \/ NoQuery
    \/ QueryExtract
    \/ FindFace
    \/ Crash
    \/ Exit

Spec == Init /\ [][Next]_vars

\* a step of the running process
ProcessStep ==
    \/ InitializeConnect
    \/ CreateFiles
    \/ CreateLink
    \/ ListFiles
    \/ SyncInsert
    \/ InsertFilesRow
    \/ InsertLinkRow
    \/ InsertCommit
    \/ SyncDone
    \/ NoQuery
    \/ QueryExtract
    \/ FindFace
    \/ Exit

\* the command is run again and again, and a process that is not killed runs on
SpecRetry == Init /\ [][Next]_vars /\ WF_vars(ProcessStep) /\ WF_vars(RunStart)

\* ---- direct use of AlbumIndex by a client program ----
\* AlbumIndex(album_path)
ClientOpen ==
    /\ pc = "idle"
    /\ caller' = "client"
    /\ delete_index' = FALSE
    /\ index' = indexFile
    /\ startFiles' = files
    /\ startLink' = link
    /\ pc' = "client"
    /\ UNCHANGED <<env, durable, tx, mainLocals, insertLocals, queryLocals,
                   outcome, extracted, syncComplete, prevAlbum, runFacts>>

\* variant: initialize without the exists() check
ClientInitializeUnchecked ==
    /\ pc = "client"
    /\ pc' = "connect"
    /\ UNCHANGED <<env, durable, proc, tx, mainLocals, insertLocals,
                   queryLocals, outcome, history, runFacts>>

\* index.initialize(): raises when the index exists
ClientInitialize ==
    /\ pc = "client"
    /\ IF index
       THEN Raise("AlreadyExists")
       ELSE /\ pc' = "connect"
            /\ UNCHANGED outcome
    /\ UNCHANGED <<env, durable, proc, tx, mainLocals, insertLocals,
                   queryLocals, history, runFacts>>

\* index.insert(f), for any file of the album
ClientInsert ==
    /\ pc = "client"
    /\ index
    /\ Len(files) < MaxRows
    /\ \E f \in album : InsertExtract(f)

\* the client program ends
ClientClose ==
    /\ pc = "client"
    /\ pc' = "done"
    /\ outcome' = "ok"
    /\ UNCHANGED <<env, durable, proc, tx, mainLocals, insertLocals,
                   queryLocals, history, runFacts>>

NextApi ==
    \/ AlbumChange
    \/ ClientOpen
    \/ ClientInitialize
    \/ ClientInsert
    \/ ClientClose
    \/ InitializeConnect
    \/ CreateFiles
    \/ CreateLink
    \/ InsertFilesRow
    \/ InsertLinkRow
    \/ InsertCommit
    \/ Crash
    \/ Exit

SpecApi == Init /\ [][NextApi]_vars

TypeOK ==
    /\ album \subseteq Files
    /\ unreadable \subseteq album
    /\ indexFile \in BOOLEAN
    /\ tables \subseteq {"files", "link"}
    /\ pc \in {"idle", "connect", "create_files", "create_link", "list", "loop",
               "insert_files", "insert_link", "synced", "find", "done", "client"}

\* ---- properties ----
\* number of rows of table files that hold name f
FileRows(rows, f) == Cardinality({j \in 1..Len(rows) : rows[j] = f})

\* the face vectors of the rows of table link that belong to f, in row order
LinkOf(rows, f) ==
    LET own == SelectSeq(rows, LAMBDA row : row[1] = f)
    IN [j \in 1..Len(own) |-> own[j][2]]

\* no two AlbumEntries for one name, and every name's EmbeddingRecords once
NoDuplicates ==
    \A f \in Files :
        /\ FileRows(files, f) <= 1
        /\ Len(LinkOf(link, f)) <= Len(Faces(f))

\* the run is a run of main that has computed new_files and has not failed in between
AfterListing ==
    /\ caller = "main"
    /\ \/ pc \in {"loop", "insert_files", "insert_link", "synced", "find"}
       \/ pc = "done" /\ syncComplete

\* C1: a sync that directly follows a completed sync of the same album listing
\* finds no new file, calls the extractor for no file, inserts nothing and
\* leaves both tables as they were, without duplicate rows
C1_SyncIdempotent ==
    (AfterListing /\ prevAlbum = album) =>
        /\ new_files = <<>>
        /\ extracted = {}
        /\ txFiles = <<>> /\ txLink = <<>>
        /\ files = startFiles /\ link = startLink
        /\ NoDuplicates

C1_Witness ==
    /\ pc = "synced"
    /\ prevAlbum = album
    /\ Cardinality(album) >= 2
    /\ Len(files) >= 2
    /\ Len(link) >= 1

\* C2 (as stated): after a completed sync the listed filenames are exactly the
\* image files of the album
C2_Completeness ==
    pc = "synced" => list_files(files) = album

\* C2 (amended): after a completed sync the listed filenames are the image
\* files of the album together with the names that were already listed when
\* the run started; in particular every image file of the album is listed
C2_CompletenessAmended ==
    pc = "synced" =>
        /\ list_files(files) = album \cup indexed_files
        /\ indexed_files = list_files(startFiles)
        /\ album \subseteq list_files(files)

C2_Witness ==
    /\ pc = "synced"
    /\ album \ indexed_files # {}
    /\ indexed_files \ album # {}
    /\ album \cap indexed_files # {}

\* C3: when the extractor fails for a new file, the run still records every
\* other new file whose extraction succeeds, and the failed file stays absent
C3_FailureIsolation ==
    (pc = "done" /\ caller = "main" /\ outcome \notin {"crash", "OperationalError"}) =>
        \A f \in Range(new_files) :
            /\ f \notin unreadable => f \in list_files(files)
            /\ f \in unreadable => f \notin list_files(files)

\* every name of table files owns all of its face vectors, any other name none
AllOrNothing ==
    \A f \in Files :
        LinkOf(link, f) = IF f \in list_files(files) THEN Faces(f) ELSE <<>>

\* C4: no step inside an insertion other than its commit changes the durable
\* tables, and neither does the end of the process, so a stop anywhere before
\* the commit leaves the pre-write state; in every durable state a file has
\* its row of files with all of its rows of link, or none of them
C4_InsertAtomic ==
    /\ []AllOrNothing
    /\ [][(pc \in {"insert_files", "insert_link"} /\ pc' \notin {"loop", "client"})
            => (files' = files /\ link' = link)]_vars
    /\ [][pc = "done" => (files' = files /\ link' = link)]_vars

C4_Witness ==
    /\ pc = "done"
    /\ outcome = "crash"
    /\ txFiles = <<filename>>
    /\ Len(encodings) = 2
    /\ Len(txLink) = 1
    /\ files # <<>>

\* C5: insert for a name that already has a row in files does not complete:
\* it fails and leaves both tables unchanged
C5_DuplicateRejected ==
    [][(pc = "insert_link" /\ filename \in list_files(files))
         => (pc' \in {"insert_link", "done"} /\ files' = files /\ link' = link)]_vars

\* C6: a query image with more than one face ends the query with
\* AmbiguousQuery, returns nothing, calls the comparator for no row and
\* changes nothing in the store, the rows committed by this run's sync included
C6_AmbiguousQuery ==
    /\ [][(pc = "find" /\ Len(query) > 1 /\ outcome' # "crash")
            => /\ pc' = "done"
               /\ outcome' = "AmbiguousQuery"
               /\ result' = <<>>
               /\ compareCalls' = 0
               /\ UNCHANGED durable]_vars
    /\ [][(pc = "done" /\ outcome = "AmbiguousQuery") => UNCHANGED durable]_vars

C6_Witness ==
    /\ pc = "done"
    /\ outcome = "AmbiguousQuery"
    /\ Len(query) = 2
    /\ Len(files) > Len(startFiles)
    /\ link # <<>>

\* C7: a query image without a face returns the empty list without an error,
\* whatever the tables hold, and changes nothing in the store
C7_NoFaceQuery ==
    [][(pc = "find" /\ Len(query) = 0 /\ outcome' # "crash")
         => /\ pc' = "done"
            /\ outcome' = "found"
            /\ result' = <<>>
            /\ compareCalls' = 0
            /\ UNCHANGED durable]_vars

C7_Witness ==
    /\ pc = "done"
    /\ outcome = "found"
    /\ query = <<>>
    /\ Len(link) >= 2

\* positions of the rows of link whose vector the comparator matches against q
MatchingRows(q) == {j \in 1..Len(link) : compare_faces(link[j][2], q)}

\* the n-th smallest element of a set of positions
Nth(S, n) == CHOOSE j \in S : Cardinality({m \in S : m <= j}) = n

\* C8: for a query with one face the result holds, in row order, the filename
\* of every matching row of link: a name is in it iff it owns a matching row,
\* once per matching row, and a name without rows of link is never in it
C8_FindResult ==
    (pc = "done" /\ outcome = "found" /\ Len(query) = 1) =>
        LET q == query[1]
            M == MatchingRows(q)
        IN /\ Len(result) = Cardinality(M)
           /\ \A n \in 1..Len(result) : result[n] = link[Nth(M, n)][1]
           /\ \A f \in Files :
                /\ f \in Range(result) <=> \E j \in M : link[j][1] = f
                /\ FileRows(result, f) = Cardinality({j \in M : link[j][1] = f})
                /\ LinkOf(link, f) = <<>> => f \notin Range(result)
           /\ compareCalls = Len(link)

C8_Witness ==
    /\ pc = "done"
    /\ outcome = "found"
    /\ Len(query) = 1
    /\ \E f \in Files : FileRows(result, f) = 2
    /\ \E f \in list_files(files) : LinkOf(link, f) = <<>>
    /\ Cardinality(MatchingRows(query[1])) < Len(link)

\* C9: a file without a face gets its row in files and no row in link, and
\* once it has that row no later run puts it in new_files or extracts it again
C9_ZeroFaceFile ==
    \A f \in Files :
        Faces(f) = <<>> =>
            /\ (pc = "synced" /\ f \in album) =>
                   (FileRows(files, f) = 1 /\ LinkOf(link, f) = <<>>)
            /\ (caller = "main" /\ f \in list_files(startFiles)) =>
                   (f \notin Range(new_files) /\ f \notin extracted)

C9_Witness ==
    /\ pc = "synced"
    /\ extracted # {}
    /\ \E f \in album \cap list_files(startFiles) : Faces(f) = <<>>

\* C10 (as stated): a delete run on an album without index ends with NotFound
C10_DeleteMissingIsError ==
    (pc = "done" /\ delete_index /\ ~index) => outcome = "NotFound"

\* C10 (amended): a delete run on an album without index ends without an
\* error, having created and removed nothing
C10_DeleteMissingIsNoOp ==
    [][(pc = "idle" /\ delete_index' /\ ~indexFile)
         => (pc' = "done" /\ outcome' = "ok" /\ UNCHANGED durable)]_vars

C10_Witness ==
    /\ pc = "done"
    /\ delete_index
    /\ ~index
    /\ ~indexFile
    /\ outcome = "ok"
    /\ album # {}

\* C11: deleting an existing index removes the file with all its rows; the
\* next process that opens the album finds no index, a run without
\* --delete-index then initializes a new one, and when its sync completes the
\* store holds exactly the current image files, each extracted again in this
\* run, and none of the deleted names that left the album
C11_DeleteThenReindex ==
    /\ [](~indexFile => (tables = {} /\ files = <<>> /\ link = <<>>))
    /\ [][(pc = "idle" /\ delete_index' /\ indexFile) => ~indexFile']_vars
    /\ [][(pc = "idle" /\ pc' # "idle" /\ ~indexFile)
            => (~index' /\ (~delete_index' => pc' = "connect"))]_vars
    /\ []((pc = "synced" /\ created) =>
            /\ files = AlbumListFiles(album)
            /\ extracted = album
            /\ list_files(files) \cap (deleted \ album) = {}
            /\ \A f \in album : LinkOf(link, f) = Faces(f))

C11_Witness ==
    /\ pc = "synced"
    /\ created
    /\ deleted \ album # {}
    /\ deleted \cap album # {}
    /\ album \ deleted # {}

\* C12: initialize on an AlbumIndex whose index is present does not start to
\* create anything: it raises AlreadyExists and leaves the file, the tables
\* and their rows as they were; tables are only ever created in an empty store
C12_InitializeExisting ==
    /\ [][(pc = "client" /\ indexFile) => pc' # "connect"]_vars
    /\ [][(pc = "client" /\ outcome' = "AlreadyExists")
            => (indexFile /\ index /\ pc' = "done" /\ UNCHANGED durable)]_vars
    /\ [](pc \in {"connect", "create_files", "create_link"}
            => (files = <<>> /\ link = <<>>))
    /\ [][(pc \in {"create_files", "create_link"} /\ tables' # tables)
            => (tables \subseteq tables' /\ files' = files /\ link' = link)]_vars

C12_Witness ==
    /\ pc = "done"
    /\ outcome = "AlreadyExists"
    /\ Len(files) >= 2
    /\ link # <<>>

\* some face of file f matches the query vector q
FileMatches(f, q) == \E n \in 1..Len(Faces(f)) : compare_faces(Faces(f)[n], q)

\* C13: a run reads the query only after its sync has completed, when every
\* image file of the current listing has its rows; so every album file with a
\* face that matches the query, the files added since the previous run
\* included, is in the result
C13_SyncBeforeQuery ==
    /\ (~delete_index /\ (pc = "find" \/ (pc = "done" /\ find_face_arg = "given"))) =>
           /\ syncComplete
           /\ album \subseteq list_files(files)
           /\ \A f \in album : LinkOf(link, f) = Faces(f)
    /\ (pc = "done" /\ outcome = "found" /\ Len(query) = 1) =>
           \A f \in album : FileMatches(f, query[1]) => f \in Range(result)

C13_Witness ==
    /\ pc = "done"
    /\ outcome = "found"
    /\ Len(query) = 1
    /\ startFiles # <<>>
    /\ \E f \in album \ list_files(startFiles) : f \in Range(result)

\* C14: in every state the filename of every committed row of link is the
\* name of exactly one committed row of files
C14_ReferentialIntegrity ==
    \A j \in 1..Len(link) : FileRows(files, link[j][1]) = 1

C14_Witness ==
    /\ pc = "done"
    /\ outcome = "crash"
    /\ ~created
    /\ txLink # <<>>
    /\ link # <<>>
    /\ Len(files) > Len(startFiles)

\* C15: over runs of the command table files never holds a name twice, the
\* rows of the open transaction included: new_files holds each name once and
\* none that was listed in the store when the run read it
C15_UniquePaths ==
    /\ \A f \in Files : FileRows(files \o txFiles, f) <= 1
    /\ \A f \in Files : FileRows(new_files, f) <= 1
    /\ Range(new_files) \cap indexed_files = {}
    /\ Range(new_files) \subseteq album
    /\ AfterListing => indexed_files = list_files(startFiles)

C15_Witness ==
    /\ pc = "done"
    /\ outcome = "ExtractionFailure"
    /\ startFiles # <<>>
    /\ Len(files) > Len(startFiles)
    /\ list_files(startFiles) \ album # {}

\* sequence a is an initial part of sequence b
IsPrefix(a, b) == Len(a) <= Len(b) /\ SubSeq(b, 1, Len(a)) = a

\* C16: every step other than the deletion of the whole index keeps the index
\* file, its tables and every committed row of files and link, in place and
\* unmodified: the tables only grow at their end
C16_AppendOnly ==
    [][~(pc = "idle" /\ delete_index')
         => /\ IsPrefix(files, files')
            /\ IsPrefix(link, link')
            /\ tables \subseteq tables'
            /\ (indexFile => indexFile')]_vars

C16_Witness ==
    /\ pc = "loop"
    /\ i > 1
    /\ startLink # <<>>
    /\ list_files(startFiles) \ album # {}
    /\ Len(files) > Len(startFiles)

\* C18: whenever a run finds the index file present when it starts, both
\* tables exist, so its listing, sync and query need no initialize
C18_ExistsImpliesInitialized ==
    (indexFile /\ ~created /\ pc \in {"idle", "list"}) => tables = {"files", "link"}

\* from some point on no file is unreadable, no process is killed and no
\* index is deleted
Calm == unreadable = {} /\ outcome # "crash" /\ ~delete_index

\* C17: a failed file of a stopped sync has no row, the files recorded before
\* it in that sync stay committed; the next sync takes as new exactly the
\* album files without a row; and once the album stays the same and every
\* extraction succeeds, repeated syncs reach a store with every album file
C17_Retry ==
    /\ []((pc = "done" /\ ~syncComplete
              /\ outcome \in {"ExtractionFailure", "OperationalError"}) =>
            /\ filename \notin list_files(files)
            /\ files = startFiles \o SubSeq(new_files, 1, i - 1))
    /\ [](AfterListing =>
            \A f \in album : f \in Range(new_files) <=> f \notin list_files(startFiles))
    /\ \A A \in SUBSET Files :
            <>[](album = A /\ Calm) => <>(A \subseteq list_files(files))

\* C19: a run with --delete-index ends right after the check and the unlink:
\* whatever the index and args.find_face were, it leaves no index, has
\* created none, extracted, listed and inserted nothing and run no query,
\* and the only step left to it is the end of the process
C19_DeleteOnly ==
    /\ [](delete_index =>
            /\ pc = "done" /\ outcome = "ok"
            /\ ~indexFile /\ ~created /\ tables = {} /\ files = <<>> /\ link = <<>>
            /\ extracted = {} /\ new_files = <<>> /\ ~syncComplete
            /\ txFiles = <<>> /\ txLink = <<>>
            /\ query = <<>> /\ result = <<>> /\ compareCalls = 0)
    /\ [][delete_index => (pc' = "idle" /\ UNCHANGED durable)]_vars

C19_Witness ==
    /\ pc = "done"
    /\ delete_index
    /\ find_face_arg = "given"
    /\ index
    /\ deleted # {}
    /\ album \ deleted # {}
====
